---- MODULE Spec2Model ----
(***************************************************************************)
(* A model of the pp processor: the Taiko score formulas                   *)
(* (src/src/performance/taiko/TaikoScore.cpp) and the processor's          *)
(* per-user pipeline, beatmap cache, pollers and full re-processing        *)
(* driver (src/Src/Processor/Processor.cpp).                               *)
(*                                                                         *)
(* The module holds several specifications over one set of variables; each *)
(* specification runs one part of the program and leaves the variables of  *)
(* the other parts at their initial values:                                *)
(*   SpecTaiko   the construction of one TaikoScore                        *)
(*   SpecUser    one thread running ProcessSingleUser over varied rows     *)
(*   SpecCache   two pipeline threads and the beatmap poller sharing the   *)
(*               beatmap cache and one pair of batchers                    *)
(*   SpecAll     ProcessAllUsers: the driver, its pool and connections,    *)
(*               the counter store, kills and restarts                     *)
(*   SpecMonitor the score poller of MonitorNewScores and its restarts     *)
(*   SpecMonitorFaults  the score poller when its queries can fail         *)
(*   SpecPreload the preload of the beatmap cache at construction          *)
(*   SpecBatch   two pipeline threads staging several score updates each   *)
(*               through one scores batcher                                *)
(*   SpecShutdown  ProcessAllUsers, or MonitorNewScores with both poll     *)
(*               threads, with the shutdown flag, under fair scheduling    *)
(***************************************************************************)
EXTENDS Integers, Sequences, FiniteSets, TLC

VARIABLES
    \* ---- TaikoScore (one score object under construction)
    tkPc,               \* position in the constructor
    _mods,              \* set of mod names (the bits of EMods that are set)
    _num300, _num100, _num50, _numMiss,   \* s32 hit counts
    hitWindow300Positive,                 \* beatmap.DifficultyAttribute(_mods, HitWindow300) > 0
    _difficultyValue,   \* sign class of the f32: "unset" | "zero" | "pos" | "nan"
    _accuracyValue,     \* sign class of the f32
    _totalValue,        \* "unset" or [formula, d, a, multiplier]
    \* ---- CProcessor: beatmap cache, per-user pipeline, beatmap poller
    rowSpace,           \* the score rows a query of osu_scores*_high may return
    selSpace,           \* the selectedScoreId arguments ProcessSingleUser is called with
    statusSpace,        \* the `approved` values the rows of a difficulty query carry
    _blacklistedBeatmapIds,
    _beatmaps,          \* beatmap id -> cache entry
    rwReaders,          \* _beatmapMutex: the threads holding it shared
    rwWriter,           \* _beatmapMutex: the thread holding it exclusively, or None
    th,                 \* thread -> its position and locals
    _lastApprovedDate,
    newScores,          \* the scores batcher: the statements appended, in order
    batchMutex,         \* newScores.Mutex(): its holder, or None
    newUsers,           \* statements committed through the users batcher, not yet run
    lastUserUpdate,     \* the last user update run by the database: [stmt, before, after]
    perfChange,         \* rows inserted into osu_user_performance_change
    tornRead,           \* a pipeline read an entry while a load was mutating it
    unlockedWrite,      \* a load mutated the cache without holding the lock exclusively
    \* ---- CProcessor::ProcessAllUsers
    drv,                \* the driver: its position and locals
    poolQueue,          \* threadPool: the tasks enqueued and not yet taken
    poolRunning,        \* threadPool: worker -> the task it runs
    connPending,        \* databaseConnections[c]->NumPendingQueries()
    _shallShutdown,
    userTable,          \* the user ids of osu_user_stats
    runs,               \* the runs of the process so far
    crash,              \* how the previous run ended: [inStep, b, persisted]
    dispatched,         \* the user ids this run enqueued a task for
    \* ---- the counter store (osu_counts) behind _pDB
    mainPending,        \* the background queries of _pDB not yet run, oldest first
    lastUserId,         \* the stored last_user_id counter, -1 when there is none
    lastScoreId,        \* the stored last_score_id counter, -1 when there is none
    \* ---- CProcessor::MonitorNewScores, the score poller
    spPc,
    spRes,              \* the score ids of the rows of the poll not yet looked at
    _currentScoreId,
    _numScoresProcessedSinceLastStore,
    restarts,
    psuCalls,           \* the calls of ProcessSingleUser the score poller made in this run
    pollIssuedAt,       \* _currentScoreId when the query of the poll in progress was made
    mnsPc,              \* MonitorNewScores: "off" | "running" | "returned"
    \* ---- CProcessor::QueryBeatmapDifficulty(), the preload at startup
    beatmapTable,       \* the beatmap ids with approved >= 1 and attributes of the mode
    pre                 \* the preload: its position and `begin`

taikoVars == <<tkPc, _mods, _num300, _num100, _num50, _numMiss, hitWindow300Positive,
               _difficultyValue, _accuracyValue, _totalValue>>

userVars == <<rowSpace, selSpace, statusSpace, _blacklistedBeatmapIds, _beatmaps,
              rwReaders, rwWriter, th, _lastApprovedDate, newScores, batchMutex,
              newUsers, lastUserUpdate, perfChange, tornRead, unlockedWrite>>

vars == <<taikoVars, userVars, drv, poolQueue, poolRunning, connPending, _shallShutdown,
          userTable, runs, crash, dispatched, mainPending, lastUserId, lastScoreId,
          spPc, spRes, _currentScoreId, _numScoresProcessedSinceLastStore, restarts,
          psuCalls, pollIssuedAt, mnsPc, beatmapTable, pre>>

pauVars == <<drv, poolQueue, poolRunning, connPending, _shallShutdown, userTable,
             runs, crash, dispatched>>
dbVars == <<mainPending, lastUserId, lastScoreId>>
monVars == <<spPc, spRes, _currentScoreId, _numScoresProcessedSinceLastStore, restarts,
             psuCalls, pollIssuedAt, mnsPc>>
preVars == <<beatmapTable, pre>>
orchVars == <<pauVars, dbVars, monVars, preVars>>
otherVars == <<taikoVars, userVars, preVars>>

None == "none"
Null == "null"

(***************************************************************************)
(* 32-bit signed integer arithmetic.  A value is an integer in             *)
(* -2^31 .. 2^31-1; sums and products are computed on two 16-bit limbs and *)
(* wrap modulo 2^32, which is what the builds of the program produce for   *)
(* the overflowing s32 expressions of TaikoScore.cpp.                      *)
(***************************************************************************)
Two15 == 2^15
Two16 == 2^16
Two30 == 2^30

\* the two unsigned 16-bit limbs <<high, low>> of the two's complement of x
ToLimbs(x) ==
    IF x >= 0
    THEN <<x \div Two16, x % Two16>>
    ELSE LET u == (x + Two30) + Two30
         IN  <<(u \div Two16) + Two15, u % Two16>>

FromLimbs(l) ==
    IF l[1] >= Two15
    THEN (l[1] - Two16) * Two16 + l[2]
    ELSE l[1] * Two16 + l[2]

\* x + y in s32
Add32(x, y) ==
    LET a  == ToLimbs(x)
        b  == ToLimbs(y)
        lo == a[2] + b[2]
        hi == a[1] + b[1] + (lo \div Two16)
    IN  FromLimbs(<<hi % Two16, lo % Two16>>)

\* x * c in s32, for a constant 0 <= c < 2^15
Mul32(x, c) ==
    LET a  == ToLimbs(x)
        lo == a[2] * c
        hi == a[1] * c + (lo \div Two16)
    IN  FromLimbs(<<hi % Two16, lo % Two16>>)

RECURSIVE GCD(_, _)
GCD(a, b) == IF b = 0 THEN a ELSE GCD(b, a % b)

Abs(x) == IF x < 0 THEN -x ELSE x

(***************************************************************************)
(* f32 values of Accuracy().  A value is "nan" or a fraction <<p, q>> in   *)
(* lowest terms with q > 0.  The rounding of static_cast<f32> and of the   *)
(* f32 division is left out: it is monotone and exact at 0 and 1, so it    *)
(* changes neither the sign nor the outcome of the clamp.                  *)
(***************************************************************************)
NaN == [kind |-> "nan"]
Frac(p, q) == [kind |-> "frac", p |-> p, q |-> q]
FZero == Frac(0, 1)
FOne == Frac(1, 1)

\* Clamp(a, lo, hi) of pp/Common.h on the f32 quotient num / den with lo = 0, hi = 1:
\* a < lo ? lo : (a > hi ? hi : a).  Every comparison with a NaN is false.
Clamp01(num, den) ==
    IF den = 0
    THEN IF num = 0 THEN NaN              \* 0.0f / 0.0f
         ELSE IF num < 0 THEN FZero       \* -inf
         ELSE FOne                        \* +inf
    ELSE IF num = 0 THEN FZero
    ELSE IF (num < 0) # (den < 0) THEN FZero
    ELSE IF Abs(num) >= Abs(den) THEN FOne
    ELSE LET g == GCD(Abs(num), Abs(den))
         IN  Frac(Abs(num) \div g, Abs(den) \div g)

(***************************************************************************)
(* TaikoScore                                                              *)
(***************************************************************************)
\* (_mods & EMods::m) > 0
HasMod(mods, m) == m \in mods

\* TaikoScore::TotalHits
TotalHits(n300, n100, n50, nMiss) ==
    Add32(Add32(Add32(n50, n100), n300), nMiss)

\* TaikoScore::TotalSuccessfulHits
TotalSuccessfulHits(n300, n100, n50) ==
    Add32(Add32(n50, n100), n300)

\* TaikoScore::Accuracy
Accuracy(n300, n100, n50, nMiss) ==
    IF TotalHits(n300, n100, n50, nMiss) = 0
    THEN FZero
    ELSE Clamp01(Add32(Mul32(n100, 150), Mul32(n300, 300)),
                 Mul32(TotalHits(n300, n100, n50, nMiss), 300))

\* the sign class of a product of f32 factors given by their sign classes
SignTimes(x, y) ==
    IF x = "nan" \/ y = "nan" THEN "nan"
    ELSE IF x = "zero" \/ y = "zero" THEN "zero"
    ELSE IF x = y THEN "pos" ELSE "neg"

\* the sign class of a value of Accuracy()
SignOfAccuracy(acc) ==
    IF acc = NaN THEN "nan" ELSE IF acc = FZero THEN "zero" ELSE "pos"

\* TaikoScore::computeDifficultyValue, as the sign class of _difficultyValue:
\* the strain term, 0.986^_numMiss and the mod factors are positive,
\* lengthBonus = 1 + 0.1 * min(1, TotalHits / 1500) has the sign of TotalHits + 15000,
\* Flashlight multiplies by lengthBonus once more, and Accuracy()^1.5 has the
\* class of Accuracy().
ComputeDifficultyValue(mods, n300, n100, n50, nMiss) ==
    LET hits == TotalHits(n300, n100, n50, nMiss)
        lengthBonus == IF hits > -15000 THEN "pos" ELSE IF hits = -15000 THEN "zero" ELSE "neg"
        base == IF HasMod(mods, "Flashlight")
                THEN SignTimes(lengthBonus, lengthBonus)
                ELSE lengthBonus
    IN  SignTimes(base, SignOfAccuracy(Accuracy(n300, n100, n50, nMiss)))

\* TaikoScore::computeAccuracyValue, as the sign class of _accuracyValue
ComputeAccuracyValue(mods, n300, n100, n50, nMiss, hwPositive) ==
    IF ~hwPositive
    THEN "zero"
    ELSE LET hits == TotalHits(n300, n100, n50, nMiss)
             \* min(1.15f, pow(TotalHits / 1500, 0.3f)); std::min keeps 1.15f against a NaN
             lengthBonus == IF hits = 0 THEN "zero" ELSE "pos"
             v == SignTimes(SignOfAccuracy(Accuracy(n300, n100, n50, nMiss)), lengthBonus)
         IN  IF HasMod(mods, "Hidden") /\ HasMod(mods, "Flashlight")
             THEN SignTimes(v, lengthBonus)
             ELSE v

\* the f32 multiplier of computeTotalValue in units of 10^-9
Multiplier(mods) ==
    1120 * (IF HasMod(mods, "Hidden") THEN 1075 ELSE 1000)
         * (IF HasMod(mods, "Easy") THEN 975 ELSE 1000)

\* the value 0 that computeTotalValue assigns without applying the formula
ZeroValue == [formula |-> FALSE, d |-> "zero", a |-> "zero", multiplier |-> 0]

\* a mutant of ComputeTotalValue: the Autoplay test is missing
ComputeTotalValue_NoAutoplayTest(mods, d, a) ==
    IF HasMod(mods, "Relax") \/ HasMod(mods, "Relax2")
    THEN ZeroValue
    ELSE [formula |-> TRUE, d |-> d, a |-> a, multiplier |-> Multiplier(mods)]

\* TaikoScore::computeTotalValue.  The result is the value 0, or the term
\* pow(pow(d, 1.1) + pow(a, 1.1), 1 / 1.1) * multiplier kept by its operands.
ComputeTotalValue(mods, d, a) ==
    IF HasMod(mods, "Relax") \/ HasMod(mods, "Relax2") \/ HasMod(mods, "Autoplay")
    THEN ZeroValue
    ELSE [formula |-> TRUE, d |-> d, a |-> a, multiplier |-> Multiplier(mods)]

\* whether a value of TotalValue() is the number 0
IsZeroValue(v) ==
    \/ ~v.formula /\ v.multiplier = 0
    \/ v.formula /\ v.d = "zero" /\ v.a = "zero"

\* the mods and hit counts the scores of the model are built from
Mods == {"Easy", "Hidden", "Flashlight", "Relax", "Autoplay", "Relax2"}
SmallCounts == {0, 1, 2, 8000000}
Num50Counts == {0, 1, Two30}

TaikoIdle ==
    /\ tkPc = "idle"
    /\ _mods = {}
    /\ _num300 = 0 /\ _num100 = 0 /\ _num50 = 0 /\ _numMiss = 0
    /\ hitWindow300Positive = FALSE
    /\ _difficultyValue = "unset"
    /\ _accuracyValue = "unset"
    /\ _totalValue = "unset"

\* TaikoScore::TaikoScore: the Score base is initialised from the arguments
TaikoInit ==
    /\ tkPc = "constructed"
    /\ _num50 \in Num50Counts
    /\ _mods \in SUBSET Mods
    /\ _num300 \in SmallCounts
    /\ _num100 \in SmallCounts
    /\ _numMiss \in SmallCounts
    /\ hitWindow300Positive \in BOOLEAN
    /\ _difficultyValue = "unset"
    /\ _accuracyValue = "unset"
    /\ _totalValue = "unset"

TkComputeDifficultyValue ==
    /\ tkPc = "constructed"
    /\ _difficultyValue' = ComputeDifficultyValue(_mods, _num300, _num100, _num50, _numMiss)
    /\ tkPc' = "difficulty"
    /\ UNCHANGED <<_mods, _num300, _num100, _num50, _numMiss, hitWindow300Positive,
                   _accuracyValue, _totalValue>>
    /\ UNCHANGED <<userVars, orchVars>>

TkComputeAccuracyValue ==
    /\ tkPc = "difficulty"
    /\ _accuracyValue' = ComputeAccuracyValue(_mods, _num300, _num100, _num50, _numMiss,
                                              hitWindow300Positive)
    /\ tkPc' = "accuracy"
    /\ UNCHANGED <<_mods, _num300, _num100, _num50, _numMiss, hitWindow300Positive,
                   _difficultyValue, _totalValue>>
    /\ UNCHANGED <<userVars, orchVars>>

TkComputeTotalValue ==
    /\ tkPc = "accuracy"
    /\ _totalValue' = ComputeTotalValue(_mods, _difficultyValue, _accuracyValue)
    /\ tkPc' = "done"
    /\ UNCHANGED <<_mods, _num300, _num100, _num50, _numMiss, hitWindow300Positive,
                   _difficultyValue, _accuracyValue>>
    /\ UNCHANGED <<userVars, orchVars>>

NextTaiko ==
    \/ TkComputeDifficultyValue
    \/ TkComputeAccuracyValue
    \/ TkComputeTotalValue

(***************************************************************************)
(* CProcessor: the beatmap cache and its lock                              *)
(***************************************************************************)
NumBeatmaps == 2
Beatmaps == 1 .. NumBeatmaps
MaxAttrRows == 2        \* rows a difficulty query returns for one beatmap, at most
MaxRows == 2            \* score rows one user's query returns, at most
MaxPolled == 1          \* beatmaps the beatmap poller is given, at most

PipelineThreads == {"w1", "w2"}
PollerThread == "bp"
Threads == PipelineThreads \cup {PollerThread}

\* CBeatmap::ERankedStatus and the window of ProcessSingleUser
Ranked == 1
Approved == 2
Loved == 4
s_minRankedStatus == Ranked
s_maxRankedStatus == Approved

AbsentBeatmap == [present |-> FALSE, rankedStatus |-> 0, attrs |-> 0, loading |-> FALSE]
LoadedBeatmap(status) ==
    [present |-> TRUE, rankedStatus |-> status, attrs |-> MaxAttrRows, loading |-> FALSE]

NoRow == [score_id |-> 0, beatmap_id |-> 0, ppIsNull |-> TRUE, pp |-> 0, value |-> 0]
NoQuery == [startId |-> 0, num |-> 0, left |-> 0, status |-> 0, success |-> FALSE,
            ret |-> "none"]

\* CRWLock on _beatmapMutex: shared holders exclude an exclusive holder and
\* an exclusive holder excludes everyone
CanLockShared == rwWriter = None
CanLockExclusive == rwWriter = None /\ rwReaders = {}

\* CRWLock::Lock as thread t, exclusive or shared
RWLock(t, exclusive) ==
    IF exclusive
    THEN CanLockExclusive /\ rwWriter' = t /\ rwReaders' = rwReaders
    ELSE CanLockShared /\ rwReaders' = rwReaders \cup {t} /\ rwWriter' = rwWriter

\* CRWLock::Unlock (and ~CRWLock) as thread t
RWUnlock(t) ==
    /\ rwWriter' = IF rwWriter = t THEN None ELSE rwWriter
    /\ rwReaders' = rwReaders \ {t}

SetTh(t, r) == th' = [th EXCEPT ![t] = r]

\* a mutant of QBD_LockIsWriter: the load always locks shared
QBD_LockIsWriter_AlwaysShared(success) == FALSE

\* QueryBeatmapDifficulty: CRWLock lock{&_beatmapMutex, success}
QBD_LockIsWriter(success) == success

\* QueryBeatmapDifficulty(startId, 0): the query on the replica.  The rows it
\* returns (none when the beatmap has approved < 1 or no attributes of the
\* mode) are an input: num rows, all carrying the beatmap's `approved`.
QBD_Query(t) ==
    /\ th[t].pc = "qbdQuery"
    /\ \E n \in 0 .. MaxAttrRows, st \in statusSpace :
          SetTh(t, [th[t] EXCEPT !.pc = "qbdLock",
                                 !.q = [@ EXCEPT !.num = n, !.left = n, !.status = st,
                                                 !.success = (n # 0)]])
    /\ UNCHANGED <<rowSpace, selSpace, statusSpace, _blacklistedBeatmapIds, _beatmaps,
                   rwReaders, rwWriter, _lastApprovedDate, newScores, batchMutex,
                   newUsers, lastUserUpdate, perfChange, tornRead, unlockedWrite>>
    /\ UNCHANGED taikoVars
    /\ UNCHANGED orchVars

QBD_Lock(t) ==
    /\ th[t].pc = "qbdLock"
    /\ RWLock(t, QBD_LockIsWriter(th[t].q.success))
    /\ SetTh(t, [th[t] EXCEPT !.pc = "qbdRow"])
    /\ UNCHANGED <<rowSpace, selSpace, statusSpace, _blacklistedBeatmapIds, _beatmaps,
                   _lastApprovedDate, newScores, batchMutex,
                   newUsers, lastUserUpdate, perfChange, tornRead, unlockedWrite>>
    /\ UNCHANGED taikoVars
    /\ UNCHANGED orchVars

\* one turn of while (res.NextRow()): emplace the entry if it is not there,
\* then set its ranked status, score version, hit circles and one attribute
QBD_Row(t) ==
    /\ th[t].pc = "qbdRow"
    /\ th[t].q.left > 0
    /\ LET q  == th[t].q
           id == q.startId
           k  == q.num - q.left + 1
       IN  /\ _beatmaps' = [_beatmaps EXCEPT ![id] =
                               [present |-> TRUE, rankedStatus |-> q.status,
                                attrs |-> k, loading |-> (k < q.num)]]
           /\ unlockedWrite' = (unlockedWrite \/ rwWriter # t \/ rwReaders # {})
           /\ SetTh(t, [th[t] EXCEPT !.q = [@ EXCEPT !.left = q.left - 1]])
    /\ UNCHANGED <<rowSpace, selSpace, statusSpace, _blacklistedBeatmapIds,
                   rwReaders, rwWriter, _lastApprovedDate, newScores, batchMutex,
                   newUsers, lastUserUpdate, perfChange, tornRead>>
    /\ UNCHANGED taikoVars
    /\ UNCHANGED orchVars

\* after the rows (endId == 0): success becomes false when the beatmap is
\* still not in the cache; the lock is released on return
QBD_Return(t) ==
    /\ th[t].pc = "qbdRow"
    /\ th[t].q.left = 0
    /\ RWUnlock(t)
    /\ SetTh(t, [th[t] EXCEPT !.pc = th[t].q.ret,
                              !.q = [@ EXCEPT !.success =
                                        (@ /\ _beatmaps[th[t].q.startId].present)]])
    /\ UNCHANGED <<rowSpace, selSpace, statusSpace, _blacklistedBeatmapIds, _beatmaps,
                   _lastApprovedDate, newScores, batchMutex,
                   newUsers, lastUserUpdate, perfChange, tornRead, unlockedWrite>>
    /\ UNCHANGED taikoVars
    /\ UNCHANGED orchVars

(***************************************************************************)
(* CProcessor::ProcessSingleUser.  pp values are integers in units of      *)
(* 0.001 pp.                                                               *)
(***************************************************************************)
Users == {1}

ScoreUpdateThreshold == 1                       \* 0.001f
UserUpdateThreshold == 10                       \* 0.01 in the UPDATE's WHERE
s_notableEventRatingDifferenceMinimum == 5000   \* 5.0f

cfgVars == <<rowSpace, selSpace, statusSpace, _blacklistedBeatmapIds>>
lockVars == <<rwReaders, rwWriter>>
ghostVars == <<tornRead, unlockedWrite>>

\* _blacklistedBeatmapIds.count(beatmapId) > 0
IsBlacklisted_Never(beatmapId) == FALSE

IsBlacklisted(beatmapId) == beatmapId \in _blacklistedBeatmapIds

\* rankedStatus < s_minRankedStatus || rankedStatus > s_maxRankedStatus
OutsideRankedWindow(rankedStatus) ==
    rankedStatus < s_minRankedStatus \/ rankedStatus > s_maxRankedStatus

\* a mutant of NeedsDBUpdate: the difference is not looked at
NeedsDBUpdate_NoDifference(ppIsNull, pp, selectedScoreId, scoreId, totalValue) ==
    ppIsNull \/ selectedScoreId = 0 \/ selectedScoreId = scoreId

\* the two nested ifs that guard scoresThatNeedDBUpdate.emplace_back
NeedsDBUpdate(ppIsNull, pp, selectedScoreId, scoreId, totalValue) ==
    /\ ppIsNull \/ selectedScoreId = 0 \/ selectedScoreId = scoreId
    /\ ppIsNull \/ Abs(pp - totalValue) > ScoreUpdateThreshold

\* v * 0.95^i
RECURSIVE Weigh(_, _)
Weigh(v, i) == IF i = 0 THEN v ELSE (Weigh(v, i - 1) * 95) \div 100

RECURSIVE SortDescending(_)
SortDescending(recs) ==
    IF recs = <<>> THEN <<>>
    ELSE LET i == CHOOSE i \in 1 .. Len(recs) :
                     \A j \in 1 .. Len(recs) :
                        \/ recs[j].value < recs[i].value
                        \/ recs[j].value = recs[i].value /\ j >= i
         IN  <<recs[i]>> \o SortDescending(SubSeq(recs, 1, i - 1) \o
                                            SubSeq(recs, i + 1, Len(recs)))

RECURSIVE WeightedSum(_, _)
WeightedSum(sorted, i) ==
    IF i > Len(sorted) THEN 0 ELSE Weigh(sorted[i].value, i - 1) + WeightedSum(sorted, i + 1)

RECURSIVE WeightedAccuracySum(_, _)
WeightedAccuracySum(sorted, i) ==
    IF i > Len(sorted) THEN 0
    ELSE Weigh(sorted[i].accuracy, i - 1) + WeightedAccuracySum(sorted, i + 1)

RECURSIVE WeightSum(_, _)
WeightSum(n, i) == IF i >= n THEN 0 ELSE Weigh(1000, i) + WeightSum(n, i + 1)

\* CUser::ComputePPRecord: the records by value descending, weighted by 0.95^i
UserPP(recs) == WeightedSum(SortDescending(recs), 1)
UserAccuracy(recs) ==
    IF recs = <<>> THEN 0
    ELSE (WeightedAccuracySum(SortDescending(recs), 1) * 1000) \div WeightSum(Len(recs), 0)

\* a mutant of ExceedsNotableThreshold: no threshold test
ExceedsNotableThreshold_Always(totalValue, userPP) == TRUE

\* scoresThatNeedDBUpdate.front()->TotalValue() > userPPRecord.Value * (1.0f / 21.5f)
ExceedsNotableThreshold(totalValue, userPP) == totalValue * 215 > userPP * 10

\* the result of the query of the user's previous pp, before it is made
NoPrevious == [found |-> FALSE, ppIsNull |-> TRUE, pp |-> 0]

IdleThread ==
    [pc |-> "idle", sel |-> 0, userId |-> 0, seen |-> {}, row |-> NoRow, records |-> <<>>,
     need |-> <<>>, appended |-> 0, userPP |-> 0, userAcc |-> 0, emitted |-> 0,
     loads |-> 0, polled |-> 0, q |-> NoQuery, prev |-> NoPrevious]

\* ProcessSingleUser is entered; the rows of its score query are drawn as
\* the cursor is read
PSU_Begin(t) ==
    /\ th[t].pc = "idle"
    /\ \E sel \in selSpace, u \in Users :
          SetTh(t, [IdleThread EXCEPT !.pc = "lock", !.sel = sel, !.userId = u])
    /\ UNCHANGED <<cfgVars, lockVars, ghostVars, _beatmaps, _lastApprovedDate, newScores,
                   batchMutex, newUsers, lastUserUpdate, perfChange, taikoVars>>
    /\ UNCHANGED orchVars

\* CRWLock lock{&_beatmapMutex, false}
PSU_LockShared(t) ==
    /\ th[t].pc = "lock"
    /\ RWLock(t, FALSE)
    /\ SetTh(t, [th[t] EXCEPT !.pc = "next"])
    /\ UNCHANGED <<cfgVars, ghostVars, _beatmaps, _lastApprovedDate, newScores,
                   batchMutex, newUsers, lastUserUpdate, perfChange, taikoVars>>
    /\ UNCHANGED orchVars

\* res.NextRow() yields a row
PSU_NextRow(t) ==
    /\ th[t].pc = "next"
    /\ Cardinality(th[t].seen) < MaxRows
    /\ \E row \in rowSpace :
          /\ row.score_id \notin th[t].seen
          /\ SetTh(t, [th[t] EXCEPT !.pc = "check", !.row = row, !.loads = 0,
                                    !.seen = @ \cup {row.score_id}])
    /\ UNCHANGED <<cfgVars, lockVars, ghostVars, _beatmaps, _lastApprovedDate, newScores,
                   batchMutex, newUsers, lastUserUpdate, perfChange, taikoVars>>
    /\ UNCHANGED orchVars

\* res.NextRow() is false: the scope of the lock ends
PSU_EndRows(t) ==
    /\ th[t].pc = "next"
    /\ RWUnlock(t)
    /\ SetTh(t, [th[t] EXCEPT !.pc = "appendLock", !.row = NoRow])
    /\ UNCHANGED <<cfgVars, ghostVars, _beatmaps, _lastApprovedDate, newScores,
                   batchMutex, newUsers, lastUserUpdate, perfChange, taikoVars>>
    /\ UNCHANGED orchVars

\* Blacklisted maps don't count
PSU_SkipBlacklisted(t) ==
    /\ th[t].pc = "check"
    /\ IsBlacklisted(th[t].row.beatmap_id)
    /\ SetTh(t, [th[t] EXCEPT !.pc = "next"])
    /\ UNCHANGED <<cfgVars, lockVars, ghostVars, _beatmaps, _lastApprovedDate, newScores,
                   batchMutex, newUsers, lastUserUpdate, perfChange, taikoVars>>
    /\ UNCHANGED orchVars

\* a mutant of PSU_Miss: the load is called with the read lock held
PSU_Miss_NoUnlock(t) ==
    /\ th[t].pc = "check"
    /\ ~IsBlacklisted(th[t].row.beatmap_id)
    /\ ~_beatmaps[th[t].row.beatmap_id].present
    /\ SetTh(t, [th[t] EXCEPT !.pc = "qbdQuery", !.loads = @ + 1,
                              !.q = [NoQuery EXCEPT !.startId = th[t].row.beatmap_id,
                                                    !.ret = "relock"]])
    /\ UNCHANGED <<cfgVars, lockVars, ghostVars, _beatmaps, _lastApprovedDate, newScores,
                   batchMutex, newUsers, lastUserUpdate, perfChange, taikoVars>>
    /\ UNCHANGED orchVars

\* _beatmaps.count(beatmapId) == 0: lock.Unlock(), then QueryBeatmapDifficulty(beatmapId)
PSU_Miss(t) ==
    /\ th[t].pc = "check"
    /\ ~IsBlacklisted(th[t].row.beatmap_id)
    /\ ~_beatmaps[th[t].row.beatmap_id].present
    /\ RWUnlock(t)
    /\ SetTh(t, [th[t] EXCEPT !.pc = "qbdQuery", !.loads = @ + 1,
                              !.q = [NoQuery EXCEPT !.startId = th[t].row.beatmap_id,
                                                    !.ret = "relock"]])
    /\ UNCHANGED <<cfgVars, ghostVars, _beatmaps, _lastApprovedDate, newScores,
                   batchMutex, newUsers, lastUserUpdate, perfChange, taikoVars>>
    /\ UNCHANGED orchVars

\* from the ranked status test to the end of the loop body, for a row whose
\* beatmap is in the cache: the thread's record after it
Evaluated(r) ==
    LET row == r.row
        e   == _beatmaps[row.beatmap_id]
    IN  IF OutsideRankedWindow(e.rankedStatus)
        THEN [r EXCEPT !.pc = "next"]
        ELSE [r EXCEPT !.pc = "next",
                       !.records = Append(@, [score_id |-> row.score_id,
                                              value |-> row.value,
                                              accuracy |-> 1000,
                                              ppIsNull |-> row.ppIsNull,
                                              pp |-> row.pp]),
                       !.need = IF NeedsDBUpdate(row.ppIsNull, row.pp, r.sel,
                                                 row.score_id, row.value)
                                THEN Append(@, [score_id |-> row.score_id,
                                                beatmap_id |-> row.beatmap_id,
                                                value |-> row.value])
                                ELSE @]

\* the beatmap is in the cache
PSU_Hit(t) ==
    /\ th[t].pc = "check"
    /\ ~IsBlacklisted(th[t].row.beatmap_id)
    /\ _beatmaps[th[t].row.beatmap_id].present
    /\ SetTh(t, Evaluated(th[t]))
    /\ tornRead' = (tornRead \/ _beatmaps[th[t].row.beatmap_id].loading)
    /\ UNCHANGED <<cfgVars, lockVars, unlockedWrite, _beatmaps, _lastApprovedDate,
                   newScores, batchMutex, newUsers, lastUserUpdate, perfChange, taikoVars>>
    /\ UNCHANGED orchVars

\* lock.Lock() after the load
PSU_Relock(t) ==
    /\ th[t].pc = "relock"
    /\ RWLock(t, FALSE)
    /\ SetTh(t, [th[t] EXCEPT !.pc = "recheck"])
    /\ UNCHANGED <<cfgVars, ghostVars, _beatmaps, _lastApprovedDate, newScores,
                   batchMutex, newUsers, lastUserUpdate, perfChange, taikoVars>>
    /\ UNCHANGED orchVars

\* If after querying we still didn't find anything, then we can just leave it.
PSU_StillAbsent(t) ==
    /\ th[t].pc = "recheck"
    /\ ~_beatmaps[th[t].row.beatmap_id].present
    /\ SetTh(t, [th[t] EXCEPT !.pc = "next"])
    /\ UNCHANGED <<cfgVars, lockVars, ghostVars, _beatmaps, _lastApprovedDate, newScores,
                   batchMutex, newUsers, lastUserUpdate, perfChange, taikoVars>>
    /\ UNCHANGED orchVars

PSU_Loaded(t) ==
    /\ th[t].pc = "recheck"
    /\ _beatmaps[th[t].row.beatmap_id].present
    /\ SetTh(t, Evaluated(th[t]))
    /\ tornRead' = (tornRead \/ _beatmaps[th[t].row.beatmap_id].loading)
    /\ UNCHANGED <<cfgVars, lockVars, unlockedWrite, _beatmaps, _lastApprovedDate,
                   newScores, batchMutex, newUsers, lastUserUpdate, perfChange, taikoVars>>
    /\ UNCHANGED orchVars

\* a mutant of CanLockMutex: the mutex excludes nobody
CanLockMutex_Always == TRUE

\* std::mutex::lock returns when no thread holds the mutex
CanLockMutex == batchMutex = None

\* std::lock_guard<std::mutex> lock{newScores.Mutex()}
PSU_AppendLock(t) ==
    /\ th[t].pc = "appendLock"
    /\ CanLockMutex
    /\ batchMutex' = t
    /\ SetTh(t, [th[t] EXCEPT !.pc = "append", !.appended = 0])
    /\ UNCHANGED <<cfgVars, lockVars, ghostVars, _beatmaps, _lastApprovedDate, newScores,
                   newUsers, lastUserUpdate, perfChange, taikoVars>>
    /\ UNCHANGED orchVars

\* pScore->AppendToUpdateBatch(newScores) for the next score of scoresThatNeedDBUpdate
PSU_Append(t) ==
    /\ th[t].pc = "append"
    /\ th[t].appended < Len(th[t].need)
    /\ LET sc == th[t].need[th[t].appended + 1]
       IN  newScores' = Append(newScores, [by |-> t, score_id |-> sc.score_id,
                                           pp |-> sc.value])
    /\ SetTh(t, [th[t] EXCEPT !.appended = @ + 1])
    /\ UNCHANGED <<cfgVars, lockVars, ghostVars, _beatmaps, _lastApprovedDate, batchMutex,
                   newUsers, lastUserUpdate, perfChange, taikoVars>>
    /\ UNCHANGED orchVars

\* the lock_guard's scope ends; user.ComputePPRecord()
PSU_AppendUnlock(t) ==
    /\ th[t].pc = "append"
    /\ th[t].appended = Len(th[t].need)
    /\ batchMutex' = IF batchMutex = t THEN None ELSE batchMutex
    /\ SetTh(t, [th[t] EXCEPT !.pc = "notable",
                              !.userPP = UserPP(th[t].records),
                              !.userAcc = UserAccuracy(th[t].records)])
    /\ UNCHANGED <<cfgVars, lockVars, ghostVars, _beatmaps, _lastApprovedDate, newScores,
                   newUsers, lastUserUpdate, perfChange, taikoVars>>
    /\ UNCHANGED orchVars

\* the rows of osu_user_stats a statement or query may find for the user: the
\* stored pp (possibly NULL), and whether last_played is more than 3 months ago
StoredUserPPs == {210, 211, 1000, 1001}
UserStatsRows ==
    {[ppIsNull |-> TRUE, pp |-> 0, accuracy_new |-> 0, inactive |-> i] : i \in BOOLEAN}
    \cup {[ppIsNull |-> FALSE, pp |-> v, accuracy_new |-> 0, inactive |-> i] :
            v \in StoredUserPPs, i \in BOOLEAN}

\* the condition of "Check for notable event"
NotableCandidate(r) ==
    /\ r.sel > 0
    /\ r.need # <<>>
    /\ ExceedsNotableThreshold(r.need[1].value, r.userPP)

PSU_NoNotableEvent(t) ==
    /\ th[t].pc = "notable"
    /\ ~NotableCandidate(th[t])
    /\ SetTh(t, [th[t] EXCEPT !.pc = "userUpdate"])
    /\ UNCHANGED <<cfgVars, lockVars, ghostVars, _beatmaps, _lastApprovedDate, newScores,
                   batchMutex, newUsers, lastUserUpdate, perfChange, taikoVars>>
    /\ UNCHANGED orchVars

\* the query of the user's previous pp and the loop over its rows (none or one)
PSU_NotableEvent(t) ==
    /\ th[t].pc = "notable"
    /\ NotableCandidate(th[t])
    /\ \E found \in BOOLEAN, prev \in UserStatsRows :
          LET ratingChange == th[t].userPP - prev.pp
          IN  /\ perfChange' =
                    IF found /\ ~prev.ppIsNull
                             /\ ~(ratingChange < s_notableEventRatingDifferenceMinimum)
                    THEN Append(perfChange, [user_id |-> th[t].userId,
                                             beatmap_id |-> th[t].need[1].beatmap_id,
                                             performance_change |-> ratingChange])
                    ELSE perfChange
              /\ SetTh(t, [th[t] EXCEPT !.pc = "userUpdate",
                                        !.prev = IF found
                                                 THEN [found |-> TRUE, ppIsNull |-> prev.ppIsNull,
                                                       pp |-> prev.pp]
                                                 ELSE NoPrevious])
    /\ UNCHANGED <<cfgVars, lockVars, ghostVars, _beatmaps, _lastApprovedDate, newScores,
                   batchMutex, newUsers, lastUserUpdate, taikoVars>>
    /\ UNCHANGED orchVars

\* newUsers.AppendAndCommit(UPDATE osu_user_stats ...); return user
PSU_UserUpdate(t) ==
    /\ th[t].pc = "userUpdate"
    /\ newUsers' = Append(newUsers, [user_id |-> th[t].userId, value |-> th[t].userPP,
                                     accuracy |-> th[t].userAcc])
    /\ SetTh(t, [th[t] EXCEPT !.pc = "return", !.emitted = @ + 1])
    /\ UNCHANGED <<cfgVars, lockVars, ghostVars, _beatmaps, _lastApprovedDate, newScores,
                   batchMutex, lastUserUpdate, perfChange, taikoVars>>
    /\ UNCHANGED orchVars

\* return user: the locals are gone
PSU_Return(t) ==
    /\ th[t].pc = "return"
    /\ SetTh(t, [IdleThread EXCEPT !.pc = "returned"])
    /\ UNCHANGED <<cfgVars, lockVars, ghostVars, _beatmaps, _lastApprovedDate, newScores,
                   batchMutex, newUsers, lastUserUpdate, perfChange, taikoVars>>
    /\ UNCHANGED orchVars

\* a mutant of ExecUserUpdate: the WHERE clause has no ABS(...) > 0.01
ExecUserUpdate_NoGuard(row, stmt) ==
    [row EXCEPT !.ppIsNull = FALSE,
                !.pp = IF row.inactive THEN 0 ELSE stmt.value,
                !.accuracy_new = stmt.accuracy]

\* the UPDATE of ProcessSingleUser run on the user's row: with a NULL pp the
\* WHERE clause is NULL and the row is left alone
ExecUserUpdate(row, stmt) ==
    IF ~row.ppIsNull /\ Abs(row.pp - stmt.value) > UserUpdateThreshold
    THEN [row EXCEPT !.pp = IF row.inactive THEN 0 ELSE stmt.value,
                     !.accuracy_new = stmt.accuracy]
    ELSE row

NoUserUpdate ==
    [stmt |-> [user_id |-> 0, value |-> 0, accuracy |-> 0],
     before |-> [ppIsNull |-> TRUE, pp |-> 0, accuracy_new |-> 0, inactive |-> FALSE],
     after |-> [ppIsNull |-> TRUE, pp |-> 0, accuracy_new |-> 0, inactive |-> FALSE]]

\* the database runs the oldest committed user update on the row it finds
DbRunUserUpdate ==
    /\ newUsers # <<>>
    /\ \E row \in UserStatsRows :
          lastUserUpdate' = [stmt |-> Head(newUsers), before |-> row,
                             after |-> ExecUserUpdate(row, Head(newUsers))]
    /\ newUsers' = Tail(newUsers)
    /\ UNCHANGED <<cfgVars, lockVars, ghostVars, _beatmaps, th, _lastApprovedDate,
                   newScores, batchMutex, perfChange, taikoVars>>
    /\ UNCHANGED orchVars

(***************************************************************************)
(* CProcessor::PollAndProcessNewBeatmapSets, run by the beatmap poll thread *)
(***************************************************************************)
\* a mutant of MonitorLoopCondition: the flag is not looked at
MonitorLoopCondition_Always(shallShutdown) == TRUE

\* while (!_shallShutdown), the loop of either poll thread of MonitorNewScores
MonitorLoopCondition(shallShutdown) == ~shallShutdown

BP_Poll ==
    /\ th[PollerThread].pc = "bpIdle"
    /\ MonitorLoopCondition(_shallShutdown)
    /\ SetTh(PollerThread, [th[PollerThread] EXCEPT !.pc = "bpFirst"])
    /\ UNCHANGED <<cfgVars, lockVars, ghostVars, _beatmaps, _lastApprovedDate, newScores,
                   batchMutex, newUsers, lastUserUpdate, perfChange, taikoVars>>
    /\ UNCHANGED orchVars

\* res.NextRow() yields a beatmap whose approved_date is later than the date
\* queried with (the first row) or not earlier than the row before
BP_NextRow ==
    /\ th[PollerThread].pc \in {"bpFirst", "bpNext"}
    /\ th[PollerThread].polled < MaxPolled
    /\ \E b \in Beatmaps, later \in BOOLEAN :
          /\ th[PollerThread].pc = "bpFirst" => later
          /\ _lastApprovedDate' = _lastApprovedDate + (IF later THEN 1 ELSE 0)
          /\ SetTh(PollerThread,
                   [th[PollerThread] EXCEPT !.pc = "qbdQuery", !.polled = @ + 1,
                                            !.q = [NoQuery EXCEPT !.startId = b,
                                                                  !.ret = "bpNext"]])
    /\ UNCHANGED <<cfgVars, lockVars, ghostVars, _beatmaps, newScores,
                   batchMutex, newUsers, lastUserUpdate, perfChange, taikoVars>>
    /\ UNCHANGED orchVars

BP_EndRows ==
    /\ th[PollerThread].pc \in {"bpFirst", "bpNext"}
    /\ SetTh(PollerThread, [th[PollerThread] EXCEPT !.pc = "bpIdle"])
    /\ UNCHANGED <<cfgVars, lockVars, ghostVars, _beatmaps, _lastApprovedDate, newScores,
                   batchMutex, newUsers, lastUserUpdate, perfChange, taikoVars>>
    /\ UNCHANGED orchVars

\* the beatmap poll thread finds the flag set and ends
BP_Exit ==
    /\ th[PollerThread].pc = "bpIdle"
    /\ ~MonitorLoopCondition(_shallShutdown)
    /\ SetTh(PollerThread, [th[PollerThread] EXCEPT !.pc = "bpExited"])
    /\ UNCHANGED <<cfgVars, lockVars, ghostVars, _beatmaps, _lastApprovedDate, newScores,
                   batchMutex, newUsers, lastUserUpdate, perfChange, taikoVars>>
    /\ UNCHANGED orchVars

\* the steps of ProcessSingleUser, with the lazy load it calls, as thread t
PSU_Step(t) ==
    \/ PSU_Begin(t)
    \/ PSU_LockShared(t)
    \/ PSU_NextRow(t)
    \/ PSU_EndRows(t)
    \/ PSU_SkipBlacklisted(t)
    \/ PSU_Miss(t)
    \/ PSU_Hit(t)
    \/ PSU_Relock(t)
    \/ PSU_StillAbsent(t)
    \/ PSU_Loaded(t)
    \/ PSU_AppendLock(t)
    \/ PSU_Append(t)
    \/ PSU_AppendUnlock(t)
    \/ PSU_NoNotableEvent(t)
    \/ PSU_NotableEvent(t)
    \/ PSU_UserUpdate(t)
    \/ PSU_Return(t)

QBD_Step(t) ==
    \/ QBD_Query(t)
    \/ QBD_Lock(t)
    \/ QBD_Row(t)
    \/ QBD_Return(t)

(***************************************************************************)
(* CProcessor::ProcessAllUsers: the driver, its thread pool, the worker    *)
(* connections and the counter store                                       *)
(***************************************************************************)
NumThreads == 2         \* numThreads: pool workers, each with its connection
userIdStep == 2         \* the driver's step; 10000 in the source, scaled
MaxUserId == 4          \* user ids of osu_user_stats are drawn from 1 .. MaxUserId
MaxRuns == 2            \* runs of the process: the first and the restarts

Workers == 1 .. NumThreads
Connections == 0 .. NumThreads - 1
LastUserIdKey == "last_user_id"
LastScoreIdKey == "last_score_id"
NoTask == [userId |-> 0, conn |-> 0, busy |-> FALSE]
UserTables == (SUBSET (1 .. MaxUserId)) \ {{}}
StoredCheckpoints == {-1, 0, userIdStep, 3 * userIdStep}

SetMax(S) == CHOOSE x \in S : \A y \in S : y <= x

\* the driver before it runs
NewDriver(reProcess) ==
    [pc |-> "start", reProcess |-> reProcess, begin |-> 0, stepBegin |-> 0,
     maxUserId |-> 0, res |-> {}, currentConnection |-> 0, numPendingQueries |-> 0,
     shutDown |-> FALSE]

\* CThreadPool::GetNumTasksInSystem: the tasks queued and the tasks running
GetNumTasksInSystem ==
    Len(poolQueue) + Cardinality({w \in Workers : poolRunning[w].busy})

\* the sum of NumPendingQueries() over databaseConnections
SumPendingQueries(n) ==
    LET RECURSIVE Sum(_)
        Sum(c) == IF c < 0 THEN 0 ELSE n[c] + Sum(c - 1)
    IN  Sum(NumThreads - 1)

\* StoreCount: an upsert of the counter, handed to the connection's background
\* thread (db.NonQueryBackground)
StoreCount(pending, key, value, isReset) ==
    Append(pending, [key |-> key, value |-> value, isReset |-> isReset])

\* a mutant of RetrieveCount: the stored count is not read
RetrieveCount_Absent(key) == -1

\* RetrieveCount: the stored count, -1 when there is none (a query: it sees
\* what the database holds)
RetrieveCount(key) == IF key = LastUserIdKey THEN lastUserId ELSE lastScoreId

\* a mutant of NextBegin: begin is not advanced
NextBegin_NoAdvance(begin) == begin

\* begin += userIdStep
NextBegin(begin) == begin + userIdStep

\* the rows of SELECT user_id ... WHERE user_id BETWEEN begin AND end
UsersBetween(begin, end) == {u \in userTable : begin <= u /\ u <= end}

\* the do-while condition of the busy wait
MustKeepWaiting(numTasks, numPendingQueries) == numTasks > 0 \/ numPendingQueries > 0


\* ProcessAllUsers up to the loop: the pool and connections are built, begin is
\* 0 (and the counter is zeroed) or the stored counter, and MAX(user_id) is read
PAU_Start ==
    /\ drv.pc = "start"
    /\ LET begin == IF drv.reProcess THEN 0 ELSE RetrieveCount(LastUserIdKey)
       IN  /\ mainPending' = IF drv.reProcess
                             THEN StoreCount(mainPending, LastUserIdKey, begin, TRUE)
                             ELSE mainPending
           /\ drv' = IF begin = -1
                     THEN [drv EXCEPT !.pc = "done", !.begin = begin]
                     ELSE [drv EXCEPT !.pc = "loop", !.begin = begin,
                                      !.maxUserId = SetMax(userTable)]
    /\ UNCHANGED <<poolQueue, poolRunning, connPending, _shallShutdown, userTable, runs,
                   crash, dispatched, lastUserId, lastScoreId, monVars, otherVars>>

\* while (begin <= maxUserId): the query of the step's user ids
PAU_Loop ==
    /\ drv.pc = "loop"
    /\ drv' = IF drv.begin <= drv.maxUserId
              THEN [drv EXCEPT !.pc = "dispatch", !.stepBegin = drv.begin,
                               !.res = UsersBetween(drv.begin, drv.begin + userIdStep)]
              ELSE [drv EXCEPT !.pc = "done"]
    /\ UNCHANGED <<poolQueue, poolRunning, connPending, _shallShutdown, userTable, runs,
                   crash, dispatched, dbVars, monVars, otherVars>>

\* while (res.NextRow()): one task is enqueued for the row's user on the current
\* connection, the connection index advances, and the shutdown flag is looked at
PAU_Dispatch ==
    /\ drv.pc = "dispatch"
    /\ drv.res # {}
    /\ \E userId \in drv.res :
          /\ poolQueue' = Append(poolQueue, [userId |-> userId,
                                             conn |-> drv.currentConnection, busy |-> TRUE])
          /\ dispatched' = dispatched \cup {userId}
          /\ drv' = [drv EXCEPT !.res = @ \ {userId},
                                !.currentConnection = (@ + 1) % NumThreads,
                                !.pc = IF _shallShutdown THEN "done" ELSE "dispatch",
                                !.shutDown = _shallShutdown]
    /\ UNCHANGED <<poolRunning, connPending, _shallShutdown, userTable, runs, crash,
                   dbVars, monVars, otherVars>>

\* the rows are over: begin += userIdStep
PAU_Advance ==
    /\ drv.pc = "dispatch"
    /\ drv.res = {}
    /\ drv' = [drv EXCEPT !.pc = "readPending", !.begin = NextBegin(@)]
    /\ UNCHANGED <<poolQueue, poolRunning, connPending, _shallShutdown, userTable, runs,
                   crash, dispatched, dbVars, monVars, otherVars>>

\* the body of the do-while: numPendingQueries is summed over the connections;
\* the 10 ms sleep follows
PAU_ReadPending ==
    /\ drv.pc = "readPending"
    /\ drv' = [drv EXCEPT !.pc = "sleep", !.numPendingQueries = SumPendingQueries(connPending)]
    /\ UNCHANGED <<poolQueue, poolRunning, connPending, _shallShutdown, userTable, runs,
                   crash, dispatched, dbVars, monVars, otherVars>>

\* after the sleep: the condition of the do-while, with the pool looked at now
\* and numPendingQueries as read before the sleep
PAU_CheckPool ==
    /\ drv.pc = "sleep"
    /\ drv' = [drv EXCEPT !.pc = IF MustKeepWaiting(GetNumTasksInSystem, drv.numPendingQueries)
                                 THEN "readPending" ELSE "store"]
    /\ UNCHANGED <<poolQueue, poolRunning, connPending, _shallShutdown, userTable, runs,
                   crash, dispatched, dbVars, monVars, otherVars>>

\* StoreCount(*_pDB, LastUserIdKey(), begin)
PAU_StoreCount ==
    /\ drv.pc = "store"
    /\ mainPending' = StoreCount(mainPending, LastUserIdKey, drv.begin, FALSE)
    /\ drv' = [drv EXCEPT !.pc = "loop"]
    /\ UNCHANGED <<poolQueue, poolRunning, connPending, _shallShutdown, userTable, runs,
                   crash, dispatched, lastUserId, lastScoreId, monVars, otherVars>>

\* a pool worker takes the oldest queued task
TaskStart(w) ==
    /\ ~poolRunning[w].busy
    /\ poolQueue # <<>>
    /\ poolRunning' = [poolRunning EXCEPT ![w] = Head(poolQueue)]
    /\ poolQueue' = Tail(poolQueue)
    /\ UNCHANGED <<drv, connPending, _shallShutdown, userTable, runs, crash, dispatched,
                   dbVars, monVars, otherVars>>

\* the task's ProcessSingleUser runs to its end: its user update is committed
\* through the task's users batcher, which hands it to the background thread of
\* the task's connection; the task then leaves the pool
TaskFinish(w) ==
    /\ poolRunning[w].busy
    /\ connPending' = [connPending EXCEPT ![poolRunning[w].conn] = @ + 1]
    /\ poolRunning' = [poolRunning EXCEPT ![w] = NoTask]
    /\ UNCHANGED <<drv, poolQueue, _shallShutdown, userTable, runs, crash, dispatched,
                   dbVars, monVars, otherVars>>

\* the background thread of a worker connection runs its oldest pending query
ConnRunPending(c) ==
    /\ connPending[c] > 0
    /\ connPending' = [connPending EXCEPT ![c] = @ - 1]
    /\ UNCHANGED <<drv, poolQueue, poolRunning, _shallShutdown, userTable, runs, crash,
                   dispatched, dbVars, monVars, otherVars>>

\* the background thread of _pDB runs its oldest pending query: an upsert of a counter
MainRunPending ==
    /\ mainPending # <<>>
    /\ LET q == Head(mainPending)
       IN  /\ lastUserId' = IF q.key = LastUserIdKey THEN q.value ELSE lastUserId
           /\ lastScoreId' = IF q.key = LastScoreIdKey THEN q.value ELSE lastScoreId
    /\ mainPending' = Tail(mainPending)
    /\ UNCHANGED <<pauVars, monVars, otherVars>>

\* shutdown is requested while the driver runs
RequestShutdown ==
    /\ ~_shallShutdown
    /\ drv.pc \notin {"start", "done"}
    /\ _shallShutdown' = TRUE
    /\ UNCHANGED <<drv, poolQueue, poolRunning, connPending, userTable, runs, crash,
                   dispatched, dbVars, monVars, otherVars>>

\* the positions of the driver at which a step is being dispatched or processed
InStepPcs == {"dispatch", "readPending", "sleep", "store"}
InStep == drv.pc \in InStepPcs \/ (drv.pc = "done" /\ drv.shutDown)

NoCrash == [inStep |-> FALSE, b |-> 0, persisted |-> 0]

\* the process is killed (or has shut down) and is started again: what it held
\* in memory is gone, the queries its background threads had not run are not
\* run, and ProcessAllUsers is called anew
KillAndRestart ==
    /\ runs < MaxRuns
    /\ drv.pc # "start"
    /\ runs' = runs + 1
    /\ crash' = IF InStep
                THEN [inStep |-> TRUE, b |-> drv.stepBegin, persisted |-> lastUserId]
                ELSE NoCrash
    /\ \E reProcess \in BOOLEAN : drv' = NewDriver(reProcess)
    /\ poolQueue' = <<>>
    /\ poolRunning' = [w \in Workers |-> NoTask]
    /\ connPending' = [c \in Connections |-> 0]
    /\ mainPending' = <<>>
    /\ _shallShutdown' = FALSE
    /\ dispatched' = {}
    /\ UNCHANGED <<userTable, lastUserId, lastScoreId, monVars, otherVars>>

(***************************************************************************)
(* CProcessor::MonitorNewScores and PollAndProcessNewScores                *)
(***************************************************************************)
MaxScoreId == 4                 \* score ids are drawn from 1 .. MaxScoreId
s_lastScoreIdUpdateStep == 1    \* 100 in the source, scaled
MaxRestarts == 2                \* restarts of the monitoring process

RECURSIVE Ascending(_)
Ascending(S) ==
    IF S = {} THEN <<>>
    ELSE LET m == CHOOSE x \in S : \A y \in S : x <= y
         IN  <<m>> \o Ascending(S \ {m})

\* a mutant of MonitorStartScoreId: the stored counter is not used
MonitorStartScoreId_Zero(stored) == 0

\* MonitorNewScores: _currentScoreId = RetrieveCount(*_pDB, LastScoreIdKey())
MonitorStartScoreId(stored) == stored

\* a mutant of Max: _currentScoreId is not raised
Max_Keep(a, b) == a

\* std::max
Max(a, b) == IF a < b THEN b ELSE a

\* one call ProcessSingleUser(ScoreId, ...) of the row loop: the score id
\* passed, _currentScoreId when the poll's query was made, whether a query
\* inside the call failed, and whether StoreCount followed the call, with the
\* value of _currentScoreId after it
PSUCall(scoreId, failed, stored, current) ==
    [score_id |-> scoreId, issuedAt |-> pollIssuedAt, failed |-> failed, stored |-> stored,
     current |-> current]

\* PollAndProcessNewScores: the query; its rows are the scores with
\* score_id > _currentScoreId the table holds now, in ascending order
SP_Poll ==
    /\ spPc = "idle"
    /\ MonitorLoopCondition(_shallShutdown)
    /\ \E S \in SUBSET {i \in 1 .. MaxScoreId : i > _currentScoreId} :
          spRes' = Ascending(S)
    /\ spPc' = "rows"
    /\ pollIssuedAt' = _currentScoreId
    /\ UNCHANGED <<_currentScoreId, _numScoresProcessedSinceLastStore, restarts, psuCalls,
                   mnsPc, pauVars, dbVars, otherVars>>

\* one row of the poll: a row with a pp is passed over; otherwise
\* _currentScoreId is raised, ProcessSingleUser runs for the row's user, and
\* the counter is stored once more than s_lastScoreIdUpdateStep scores were
\* processed since the last store
SP_NextRow ==
    /\ spPc = "rows"
    /\ spRes # <<>>
    /\ spRes' = Tail(spRes)
    /\ \E ppIsNull \in BOOLEAN :
          IF ~ppIsNull
          THEN UNCHANGED <<_currentScoreId, _numScoresProcessedSinceLastStore, mainPending,
                           psuCalls>>
          ELSE LET current == Max(_currentScoreId, Head(spRes))
                   store == _numScoresProcessedSinceLastStore + 1 > s_lastScoreIdUpdateStep
               IN  /\ _currentScoreId' = current
                   /\ psuCalls' = Append(psuCalls, PSUCall(Head(spRes), FALSE, store, current))
                   /\ _numScoresProcessedSinceLastStore' =
                          IF store THEN 0 ELSE _numScoresProcessedSinceLastStore + 1
                   /\ mainPending' = IF store
                                     THEN StoreCount(mainPending, LastScoreIdKey, current, FALSE)
                                     ELSE mainPending
    /\ UNCHANGED <<spPc, restarts, pollIssuedAt, mnsPc, pauVars, lastUserId, lastScoreId,
                   otherVars>>

\* the rows are over: PollAndProcessNewScores returns
SP_EndRows ==
    /\ spPc = "rows"
    /\ spRes = <<>>
    /\ spPc' = "idle"
    /\ UNCHANGED <<spRes, _currentScoreId, _numScoresProcessedSinceLastStore, restarts,
                   psuCalls, pollIssuedAt, mnsPc, pauVars, dbVars, otherVars>>

\* the score poll thread finds the flag set and ends
SP_Exit ==
    /\ spPc = "idle"
    /\ ~MonitorLoopCondition(_shallShutdown)
    /\ spPc' = "exited"
    /\ UNCHANGED <<spRes, _currentScoreId, _numScoresProcessedSinceLastStore, restarts,
                   psuCalls, pollIssuedAt, mnsPc, pauVars, dbVars, otherVars>>

\* scorePollThread.join(); beatmapPollThread.join(); MonitorNewScores returns
MNS_Return ==
    /\ mnsPc = "running"
    /\ spPc = "exited"
    /\ th[PollerThread].pc = "bpExited"
    /\ mnsPc' = "returned"
    /\ UNCHANGED <<spPc, spRes, _currentScoreId, _numScoresProcessedSinceLastStore, restarts,
                   psuCalls, pollIssuedAt, pauVars, dbVars, otherVars>>

\* How a failed query reaches its caller. CDatabaseConnection::Query is not in
\* the sources; a C++ call reports a failure by an exception or by what it
\* returns, and the callers read nothing of the result but its rows
QueryFailures == {"throws", "noRows"}

\* PollAndProcessNewScores when its query fails: an exception leaves the
\* function and the thread's lambda, neither of which has a handler, and
\* std::terminate ends the process; a result without rows ends the tick
SP_PollFails ==
    /\ spPc = "idle"
    /\ MonitorLoopCondition(_shallShutdown)
    /\ \E f \in QueryFailures :
          IF f = "throws"
          THEN spPc' = "terminated" /\ spRes' = spRes
          ELSE spPc' = "rows" /\ spRes' = <<>>
    /\ pollIssuedAt' = _currentScoreId
    /\ UNCHANGED <<_currentScoreId, _numScoresProcessedSinceLastStore, restarts, psuCalls,
                   mnsPc, pauVars, dbVars, otherVars>>

\* one row of the poll whose pp is NULL, when the score query inside
\* ProcessSingleUser fails: _currentScoreId was raised before the call; an
\* exception ends the process, a result without rows lets ProcessSingleUser
\* return without having computed the score and the loop body goes on
SP_NextRowFails ==
    /\ spPc = "rows"
    /\ spRes # <<>>
    /\ LET current == Max(_currentScoreId, Head(spRes))
           store == _numScoresProcessedSinceLastStore + 1 > s_lastScoreIdUpdateStep
       IN  /\ _currentScoreId' = current
           /\ \E f \in QueryFailures :
                 IF f = "throws"
                 THEN /\ spPc' = "terminated"
                      /\ psuCalls' = Append(psuCalls,
                                            PSUCall(Head(spRes), TRUE, FALSE, current))
                      /\ UNCHANGED <<spRes, _numScoresProcessedSinceLastStore, mainPending>>
                 ELSE /\ spPc' = spPc
                      /\ spRes' = Tail(spRes)
                      /\ psuCalls' = Append(psuCalls,
                                            PSUCall(Head(spRes), TRUE, store, current))
                      /\ _numScoresProcessedSinceLastStore' =
                             IF store THEN 0 ELSE _numScoresProcessedSinceLastStore + 1
                      /\ mainPending' =
                             IF store
                             THEN StoreCount(mainPending, LastScoreIdKey, current, FALSE)
                             ELSE mainPending
    /\ UNCHANGED <<restarts, pollIssuedAt, mnsPc, pauVars, lastUserId, lastScoreId, otherVars>>

\* the process is killed and started again: the queries the background thread
\* of _pDB had not run are not run, and MonitorNewScores reloads _currentScoreId
MonitorRestart ==
    /\ restarts < MaxRestarts
    /\ restarts' = restarts + 1
    /\ mainPending' = <<>>
    /\ _currentScoreId' = MonitorStartScoreId(RetrieveCount(LastScoreIdKey))
    /\ _numScoresProcessedSinceLastStore' = 0
    /\ spPc' = "idle"
    /\ spRes' = <<>>
    /\ psuCalls' = <<>>
    /\ pollIssuedAt' = 0
    /\ mnsPc' = "running"
    /\ UNCHANGED <<pauVars, lastUserId, lastScoreId, otherVars>>

\* the orchestration before ProcessAllUsers or MonitorNewScores is called
PauIdle ==
    /\ drv = [NewDriver(FALSE) EXCEPT !.pc = "off"]
    /\ poolQueue = <<>>
    /\ poolRunning = [w \in Workers |-> NoTask]
    /\ connPending = [c \in Connections |-> 0]
    /\ _shallShutdown = FALSE
    /\ userTable = {}
    /\ runs = 0
    /\ crash = NoCrash
    /\ dispatched = {}

MonIdle ==
    /\ spPc = "off"
    /\ spRes = <<>>
    /\ _currentScoreId = 0
    /\ _numScoresProcessedSinceLastStore = 0
    /\ restarts = 0
    /\ psuCalls = <<>>
    /\ pollIssuedAt = 0
    /\ mnsPc = "off"

DbIdle ==
    /\ mainPending = <<>>
    /\ lastUserId = -1
    /\ lastScoreId = -1

\* the preload is not running: the specification's Init gives the cache
PreIdle ==
    /\ beatmapTable = {}
    /\ pre = [pc |-> "off", begin |-> 0]

OrchIdle == PauIdle /\ MonIdle /\ DbIdle /\ PreIdle

(***************************************************************************)
(* The specifications                                                      *)
(***************************************************************************)
OffThread == [IdleThread EXCEPT !.pc = "off"]

\* the state of the processor after construction, before any thread runs
UserIdle ==
    /\ rowSpace = {}
    /\ selSpace = {}
    /\ statusSpace = {}
    /\ _blacklistedBeatmapIds = {}
    /\ _beatmaps = [b \in Beatmaps |-> AbsentBeatmap]
    /\ rwReaders = {}
    /\ rwWriter = None
    /\ th = [t \in Threads |-> OffThread]
    /\ _lastApprovedDate = 0
    /\ newScores = <<>>
    /\ batchMutex = None
    /\ newUsers = <<>>
    /\ lastUserUpdate = NoUserUpdate
    /\ perfChange = <<>>
    /\ tornRead = FALSE
    /\ unlockedWrite = FALSE

\* the score rows of one user: distinct score ids, each on some beatmap, with a
\* stored pp that is NULL, equal to the computed value, 0.001 off it or 0.002 off it;
\* the first score is worth 0.2 pp, the others several pp
ValueOf(scoreId) == IF scoreId = 1 THEN 200 ELSE 3000 * scoreId
UserRows ==
    {[score_id |-> i, beatmap_id |-> b, ppIsNull |-> n, pp |-> IF n THEN 0 ELSE ValueOf(i) + d,
      value |-> ValueOf(i)] :
        i \in 1 .. MaxRows, b \in Beatmaps, n \in BOOLEAN, d \in 0 .. 2}

\* the cache after the preload: every beatmap absent or loaded whole
PreloadedCaches(statuses) ==
    [Beatmaps -> {AbsentBeatmap} \cup {LoadedBeatmap(st) : st \in statuses}]

InitUser ==
    /\ TaikoIdle
    /\ OrchIdle
    /\ rowSpace = UserRows
    /\ selSpace = 0 .. MaxRows
    /\ statusSpace = {Ranked, Approved, Loved}
    /\ _blacklistedBeatmapIds \in {{}, {1}}
    /\ _beatmaps \in PreloadedCaches({Ranked, Loved})
    /\ rwReaders = {}
    /\ rwWriter = None
    /\ th = [t \in Threads |-> IF t = "w1" THEN IdleThread ELSE OffThread]
    /\ _lastApprovedDate = 0
    /\ newScores = <<>>
    /\ batchMutex = None
    /\ newUsers = <<>>
    /\ lastUserUpdate = NoUserUpdate
    /\ perfChange = <<>>
    /\ tornRead = FALSE
    /\ unlockedWrite = FALSE

InitTaiko == TaikoInit /\ UserIdle /\ OrchIdle

SpecTaiko == InitTaiko /\ [][NextTaiko]_vars

\* two pipeline threads and the beatmap poller on one cache; each user has one
\* score, on some beatmap, with a NULL pp; the last beatmap is blacklisted
CacheRows ==
    {[score_id |-> 1, beatmap_id |-> b, ppIsNull |-> TRUE, pp |-> 0, value |-> ValueOf(1)] :
        b \in Beatmaps}

InitCache ==
    /\ TaikoIdle
    /\ OrchIdle
    /\ rowSpace = CacheRows
    /\ selSpace = {1}
    /\ statusSpace = {Ranked}
    /\ _blacklistedBeatmapIds = {NumBeatmaps}
    /\ _beatmaps \in PreloadedCaches({Ranked})
    /\ rwReaders = {}
    /\ rwWriter = None
    /\ th = [t \in Threads |-> IF t = PollerThread
                               THEN [IdleThread EXCEPT !.pc = "bpIdle"]
                               ELSE IdleThread]
    /\ _lastApprovedDate = 0
    /\ newScores = <<>>
    /\ batchMutex = None
    /\ newUsers = <<>>
    /\ lastUserUpdate = NoUserUpdate
    /\ perfChange = <<>>
    /\ tornRead = FALSE
    /\ unlockedWrite = FALSE

NextCache ==
    \/ \E t \in PipelineThreads : PSU_Step(t)
    \/ \E t \in Threads : QBD_Step(t)
    \/ BP_Poll
    \/ BP_NextRow
    \/ BP_EndRows

SpecCache == InitCache /\ [][NextCache]_vars

NextUser ==
    \/ PSU_Step("w1")
    \/ QBD_Step("w1")
    \/ DbRunUserUpdate

SpecUser == InitUser /\ [][NextUser]_vars

InitAll ==
    /\ TaikoIdle
    /\ UserIdle
    /\ MonIdle
    /\ PreIdle
    /\ \E reProcess \in BOOLEAN : drv = NewDriver(reProcess)
    /\ poolQueue = <<>>
    /\ poolRunning = [w \in Workers |-> NoTask]
    /\ connPending = [c \in Connections |-> 0]
    /\ _shallShutdown = FALSE
    /\ userTable \in UserTables
    /\ runs = 1
    /\ crash = NoCrash
    /\ dispatched = {}
    /\ mainPending = <<>>
    /\ lastUserId \in StoredCheckpoints
    /\ lastScoreId = -1

NextAll ==
    \/ PAU_Start
    \/ PAU_Loop
    \/ PAU_Dispatch
    \/ PAU_Advance
    \/ PAU_ReadPending
    \/ PAU_CheckPool
    \/ PAU_StoreCount
    \/ \E w \in Workers : TaskStart(w)
    \/ \E w \in Workers : TaskFinish(w)
    \/ \E c \in Connections : ConnRunPending(c)
    \/ MainRunPending
    \/ RequestShutdown
    \/ KillAndRestart

SpecAll == InitAll /\ [][NextAll]_vars

StoredScoreIds == {-1, 0, 3}

InitMonitor ==
    /\ TaikoIdle
    /\ UserIdle
    /\ PauIdle
    /\ PreIdle
    /\ mainPending = <<>>
    /\ lastUserId = -1
    /\ lastScoreId \in StoredScoreIds
    /\ _currentScoreId = MonitorStartScoreId(lastScoreId)
    /\ _numScoresProcessedSinceLastStore = 0
    /\ spPc = "idle"
    /\ spRes = <<>>
    /\ restarts = 0
    /\ psuCalls = <<>>
    /\ pollIssuedAt = 0
    /\ mnsPc = "running"

NextMonitor ==
    \/ SP_Poll
    \/ SP_NextRow
    \/ SP_EndRows
    \/ MainRunPending
    \/ MonitorRestart

SpecMonitor == InitMonitor /\ [][NextMonitor]_vars

\* the score poller with failing queries
NextMonitorFaults ==
    \/ SP_Poll
    \/ SP_PollFails
    \/ SP_NextRow
    \/ SP_NextRowFails
    \/ SP_EndRows
    \/ MainRunPending
    \/ MonitorRestart

SpecMonitorFaults == InitMonitor /\ [][NextMonitorFaults]_vars

(***************************************************************************)
(* CProcessor::QueryBeatmapDifficulty(): the preload of the cache          *)
(***************************************************************************)
MaxBeatmapId == 6       \* the beatmap ids of the preload are drawn from 1 .. MaxBeatmapId
step == 2               \* 10000 in the source, scaled

PreloadBeatmaps == 1 .. MaxBeatmapId

\* the beatmaps of the rows of QueryBeatmapDifficulty(startId, endId), endId # 0:
\* beatmap_id >= startId AND beatmap_id < endId
BeatmapsInRange(startId, endId) == {b \in beatmapTable : b >= startId /\ b < endId}

\* while (QueryBeatmapDifficulty(begin, begin + step))
PreloadContinues(success, begin) == success

\* one turn of the loop of QueryBeatmapDifficulty(): the range query, the
\* emplace of every beatmap of its rows under the exclusive lock, and
\* begin += step when the query returned rows
PRE_Range ==
    /\ pre.pc = "run"
    /\ LET rows    == BeatmapsInRange(pre.begin, pre.begin + step)
           success == rows # {}
       IN  /\ _beatmaps' = [b \in PreloadBeatmaps |->
                               IF b \in rows THEN LoadedBeatmap(Ranked) ELSE _beatmaps[b]]
           /\ pre' = IF PreloadContinues(success, pre.begin)
                     THEN [pre EXCEPT !.begin = @ + step]
                     ELSE [pre EXCEPT !.pc = "done"]
    /\ UNCHANGED <<beatmapTable, cfgVars, lockVars, ghostVars, th, _lastApprovedDate,
                   newScores, batchMutex, newUsers, lastUserUpdate, perfChange, taikoVars,
                   pauVars, dbVars, monVars>>

\* the processor is constructed over some table of beatmaps
InitPreload ==
    /\ TaikoIdle
    /\ PauIdle
    /\ MonIdle
    /\ DbIdle
    /\ rowSpace = {}
    /\ selSpace = {}
    /\ statusSpace = {Ranked}
    /\ _blacklistedBeatmapIds = {}
    /\ _beatmaps = [b \in PreloadBeatmaps |-> AbsentBeatmap]
    /\ rwReaders = {}
    /\ rwWriter = None
    /\ th = [t \in Threads |-> OffThread]
    /\ _lastApprovedDate = 0
    /\ newScores = <<>>
    /\ batchMutex = None
    /\ newUsers = <<>>
    /\ lastUserUpdate = NoUserUpdate
    /\ perfChange = <<>>
    /\ tornRead = FALSE
    /\ unlockedWrite = FALSE
    /\ beatmapTable \in SUBSET PreloadBeatmaps
    /\ pre = [pc |-> "run", begin |-> 0]

NextPreload == PRE_Range

SpecPreload == InitPreload /\ [][NextPreload]_vars

\* Two pipelines that stage up to MaxRows score updates each through the same
\* scores batcher
BatchRows ==
    {[score_id |-> i, beatmap_id |-> b, ppIsNull |-> TRUE, pp |-> 0, value |-> ValueOf(i)] :
        i \in 1 .. MaxRows, b \in Beatmaps}

InitBatch ==
    /\ TaikoIdle
    /\ OrchIdle
    /\ rowSpace = BatchRows
    /\ selSpace = {1}
    /\ statusSpace = {Ranked}
    /\ _blacklistedBeatmapIds = {NumBeatmaps}
    /\ _beatmaps \in PreloadedCaches({Ranked})
    /\ rwReaders = {}
    /\ rwWriter = None
    /\ th = [t \in Threads |-> IF t = PollerThread THEN OffThread ELSE IdleThread]
    /\ _lastApprovedDate = 0
    /\ newScores = <<>>
    /\ batchMutex = None
    /\ newUsers = <<>>
    /\ lastUserUpdate = NoUserUpdate
    /\ perfChange = <<>>
    /\ tornRead = FALSE
    /\ unlockedWrite = FALSE

NextBatch ==
    \/ \E t \in PipelineThreads : PSU_Step(t)
    \/ \E t \in PipelineThreads : QBD_Step(t)

SpecBatch == InitBatch /\ [][NextBatch]_vars

\* Shutdown under fair scheduling: the process runs ProcessAllUsers, or
\* MonitorNewScores with its two poll threads, and the flag may be set at any time
InitMonitorLoops ==
    /\ TaikoIdle
    /\ PauIdle
    /\ PreIdle
    /\ rowSpace = {}
    /\ selSpace = {}
    /\ statusSpace = {Ranked}
    /\ _blacklistedBeatmapIds = {}
    /\ _beatmaps \in PreloadedCaches({Ranked})
    /\ rwReaders = {}
    /\ rwWriter = None
    /\ th = [t \in Threads |-> IF t = PollerThread
                               THEN [IdleThread EXCEPT !.pc = "bpIdle"]
                               ELSE OffThread]
    /\ _lastApprovedDate = 0
    /\ newScores = <<>>
    /\ batchMutex = None
    /\ newUsers = <<>>
    /\ lastUserUpdate = NoUserUpdate
    /\ perfChange = <<>>
    /\ tornRead = FALSE
    /\ unlockedWrite = FALSE
    /\ mainPending = <<>>
    /\ lastUserId = -1
    /\ lastScoreId \in StoredScoreIds
    /\ _currentScoreId = MonitorStartScoreId(lastScoreId)
    /\ _numScoresProcessedSinceLastStore = 0
    /\ spPc = "idle"
    /\ spRes = <<>>
    /\ restarts = 0
    /\ psuCalls = <<>>
    /\ pollIssuedAt = 0
    /\ mnsPc = "running"

InitShutdown == InitAll \/ InitMonitorLoops

\* the threads of the process
PAU_Driver ==
    \/ PAU_Start
    \/ PAU_Loop
    \/ PAU_Dispatch
    \/ PAU_Advance
    \/ PAU_ReadPending
    \/ PAU_CheckPool
    \/ PAU_StoreCount

ScorePollThread == SP_Poll \/ SP_NextRow \/ SP_EndRows \/ SP_Exit

BeatmapPollThread ==
    \/ BP_Poll
    \/ BP_NextRow
    \/ BP_EndRows
    \/ BP_Exit
    \/ QBD_Step(PollerThread)

NextShutdown ==
    \/ PAU_Start
    \/ PAU_Loop
    \/ PAU_Dispatch
    \/ PAU_Advance
    \/ PAU_ReadPending
    \/ PAU_CheckPool
    \/ PAU_StoreCount
    \/ \E w \in Workers : TaskStart(w)
    \/ \E w \in Workers : TaskFinish(w)
    \/ \E c \in Connections : ConnRunPending(c)
    \/ MainRunPending
    \/ RequestShutdown
    \/ SP_Poll
    \/ SP_NextRow
    \/ SP_EndRows
    \/ SP_Exit
    \/ BP_Poll
    \/ BP_NextRow
    \/ BP_EndRows
    \/ BP_Exit
    \/ QBD_Step(PollerThread)
    \/ MNS_Return

\* every thread that can run is run: the driver, the pool workers, the
\* background thread of each connection, the two poll threads and the thread
\* that called MonitorNewScores
FairScheduling ==
    /\ WF_vars(PAU_Driver)
    /\ \A w \in Workers : WF_vars(TaskStart(w) \/ TaskFinish(w))
    /\ \A c \in Connections : WF_vars(ConnRunPending(c))
    /\ WF_vars(MainRunPending)
    /\ WF_vars(ScorePollThread)
    /\ WF_vars(BeatmapPollThread)
    /\ WF_vars(MNS_Return)

SpecShutdown == InitShutdown /\ [][NextShutdown]_vars /\ FairScheduling

(***************************************************************************)
(* Claims about TaikoScore, under SpecTaiko                                *)
(***************************************************************************)
Disqualified(mods) == "Relax" \in mods \/ "Relax2" \in mods \/ "Autoplay" \in mods

\* C7: a constructed Taiko score whose mods contain Relax, Relax2 or Autoplay
\* has a TotalValue() of exactly 0, whatever its hit counts and beatmap
\* attributes, and the multiplier/combination formula was applied to
\* _totalValue only if none of the three mods is set.
C7_ModDisqualification ==
    tkPc = "done" =>
        /\ Disqualified(_mods) => _totalValue = ZeroValue /\ IsZeroValue(_totalValue)
        /\ _totalValue.formula => ~Disqualified(_mods)

\* a score with Autoplay alone, real hits and a positive difficulty value got its total
C7_Witness ==
    /\ tkPc = "done"
    /\ _mods = {"Autoplay"}
    /\ _num300 = 2 /\ _num100 = 1
    /\ _difficultyValue = "pos"
    /\ _accuracyValue = "pos"

\* whether the f32 value acc is the exact quotient
\* (150 * n100 + 300 * n300) / (300 * (n50 + n100 + n300 + nMiss)) clamped to [0, 1],
\* for hit counts >= 0 whose sum is not 0.  The quotient is (n100 + 2 * n300) / (2 * sum),
\* which lies in [0, 1]; it is compared in lowest terms.
EqualsExactAccuracy(acc, n300, n100, n50, nMiss) ==
    LET n  == n100 + 2 * n300
        t  == n50 + n100 + n300 + nMiss
        g  == GCD(n, t)
        n0 == n \div g
        t0 == t \div g
    IN  /\ acc # NaN
        /\ IF n0 % 2 = 0
           THEN acc.p = n0 \div 2 /\ acc.q = t0
           ELSE acc.p = n0 /\ acc.q % 2 = 0 /\ acc.q \div 2 = t0

\* C8 (the claim as stated): for all hit counts TotalHits() is their sum,
\* Accuracy() is 0 when TotalHits() is 0 and is otherwise
\* (150*n100 + 300*n300) / (300*TotalHits()) clamped to [0, 1], so that it always
\* lies in [0, 1], also when the 32-bit products or sums wrap.
C8_AccuracyAsClaimed ==
    LET hits  == TotalHits(_num300, _num100, _num50, _numMiss)
        acc == Accuracy(_num300, _num100, _num50, _numMiss)
    IN  tkPc # "idle" =>
            /\ hits = _num50 + _num100 + _num300 + _numMiss
            /\ hits = 0 => acc = FZero
            /\ hits # 0 => EqualsExactAccuracy(acc, _num300, _num100, _num50, _numMiss)
            /\ acc # NaN /\ acc.p >= 0 /\ acc.p <= acc.q

(***************************************************************************)
(* Claims about the beatmap cache, under SpecCache                         *)
(***************************************************************************)
ReadingPcs == {"next", "check", "recheck"}

\* C5: every insertion into or mutation of a cache entry by
\* QueryBeatmapDifficulty happens with _beatmapMutex held exclusively, every
\* read of the cache by ProcessSingleUser happens with it held shared, and no
\* reader sees an entry between the first and the last row of a load.
C5_CacheRWSafety ==
    /\ ~unlockedWrite
    /\ ~tornRead
    /\ \A t \in Threads :
          th[t].pc = "qbdRow" /\ th[t].q.num > 0 => rwWriter = t /\ rwReaders = {}
    /\ \A t \in PipelineThreads : th[t].pc \in ReadingPcs => t \in rwReaders /\ rwWriter = None
    /\ (\E b \in Beatmaps : _beatmaps[b].loading) => rwReaders = {} /\ rwWriter # None

\* the poller is between the rows of a load of beatmap 1 while one pipeline
\* thread waits to get its lock back for that beatmap and the other waits to start
C5_Witness ==
    /\ th[PollerThread].pc = "qbdRow"
    /\ _beatmaps[1].loading
    /\ th["w1"].pc = "relock" /\ th["w1"].row.beatmap_id = 1
    /\ th["w2"].pc = "lock"

\* thread t is at a lock it cannot take now
Blocked(t) ==
    \/ th[t].pc \in {"lock", "relock"} /\ ~CanLockShared
    \/ /\ th[t].pc = "qbdLock"
       /\ ~(IF QBD_LockIsWriter(th[t].q.success) THEN CanLockExclusive ELSE CanLockShared)
    \/ th[t].pc = "appendLock" /\ batchMutex # None

Holds(t) == t \in rwReaders \/ rwWriter = t \/ batchMutex = t

\* the parts of the protocol that do not depend on the mode of the load's
\* lock: a thread in the load before its lock holds nothing of _beatmapMutex,
\* a pipeline in its row loop holds it shared, and a thread that cannot take a
\* lock waits for a holder that is not waiting itself and can take a step
LockDiscipline ==
    /\ \A t \in Threads :
          th[t].pc \in {"qbdQuery", "qbdLock"} => t \notin rwReaders /\ rwWriter # t
    /\ \A t \in PipelineThreads :
          th[t].pc \in ReadingPcs => t \in rwReaders
    /\ \A t \in Threads :
          Blocked(t) => \E u \in Threads \ {t} :
                           /\ Holds(u)
                           /\ ~Blocked(u)
                           /\ ENABLED (PSU_Step(u) \/ QBD_Step(u))

C19_ContiguousAppends ==
    \A i \in 1 .. Len(newScores) : \A k \in i .. Len(newScores) :
       newScores[i].by = newScores[k].by =>
          \A j \in i .. k : newScores[j].by = newScores[i].by

\* one pipeline is between its two appends, holding the mutex, while the other
\* waits for the mutex with two statements of its own to append
C19_Witness ==
    /\ batchMutex = "w2"
    /\ th["w2"].pc = "append"
    /\ th["w2"].appended = 1
    /\ Len(th["w2"].need) = 2
    /\ th["w1"].pc = "appendLock"
    /\ Len(th["w1"].need) = 2

(***************************************************************************)
(* Claims about ProcessSingleUser, under SpecUser                          *)
(***************************************************************************)
Folds(t) == Len(th'[t].records) > Len(th[t].records)
Stages(t) == Len(th'[t].need) > Len(th[t].need)

C6_Step(t) ==
    LET b == th[t].row.beatmap_id
    IN  /\ Folds(t) =>
              /\ b \notin _blacklistedBeatmapIds
              /\ _beatmaps[b].present
              /\ _beatmaps[b].rankedStatus >= s_minRankedStatus
              /\ _beatmaps[b].rankedStatus <= s_maxRankedStatus
              /\ th[t].loads <= 1
        /\ Stages(t) => Folds(t)
        /\ th'[t].loads <= 1
        /\ th[t].pc = "recheck" /\ ~_beatmaps[b].present =>
              th'[t].pc = "next" /\ ~Folds(t) /\ ~Stages(t)
        /\ th[t].pc = "check" /\ b \in _blacklistedBeatmapIds =>
              th'[t].pc = "next" /\ ~Folds(t) /\ ~Stages(t)

\* C6: a score row is folded into the user's aggregate, and staged for update,
\* only if its beatmap is not blacklisted, is in the cache after at most one
\* lazy load, and has a ranked status in [s_minRankedStatus, s_maxRankedStatus];
\* a row whose beatmap is still absent after the load is skipped, and a row on
\* a blacklisted beatmap is skipped without a load.
C6_FoldRule == [][\A t \in PipelineThreads : C6_Step(t)]_vars

\* the second row's beatmap was still absent after its load: the row was
\* skipped and the aggregate holds the first row only
C6_Witness ==
    /\ th["w1"].pc = "next"
    /\ th["w1"].seen = {1, 2}
    /\ th["w1"].loads = 1
    /\ ~_beatmaps[th["w1"].row.beatmap_id].present
    /\ Len(th["w1"].records) = 1

AppendedBy(t) == {i \in 1 .. Len(newScores) : newScores[i].by = t}

C10_UserUpdate ==
    LET u == lastUserUpdate
        within == /\ u.before.pp - u.stmt.value <= UserUpdateThreshold
                  /\ u.stmt.value - u.before.pp <= UserUpdateThreshold
    IN  /\ \A t \in PipelineThreads :
              /\ th[t].pc = "return" => th[t].emitted = 1
              /\ th[t].pc \in {"lock", "next", "check", "recheck", "relock", "qbdQuery",
                               "qbdLock", "qbdRow", "appendLock", "append", "notable",
                               "userUpdate"} => th[t].emitted = 0
        /\ ~u.before.ppIsNull /\ within => u.after = u.before
        /\ ~u.before.ppIsNull /\ ~within =>
              /\ u.after.pp = IF u.before.inactive THEN 0 ELSE u.stmt.value
              /\ u.after.accuracy_new = u.stmt.accuracy
        /\ u.after # u.before => ~u.before.ppIsNull /\ ~within

\* an update carrying 0.200 pp was run on a row storing 0.210 pp and changed nothing
C10_Witness ==
    /\ lastUserUpdate.stmt.user_id = 1
    /\ lastUserUpdate.stmt.value = 200
    /\ lastUserUpdate.before.pp = 210
    /\ ~lastUserUpdate.before.ppIsNull
    /\ lastUserUpdate.after = lastUserUpdate.before
    /\ th["w1"].pc = "returned"

\* the step of thread t over "Check for notable event": a row is inserted into
\* osu_user_performance_change exactly when the five conditions hold, and it
\* carries new_user_pp - previous; every other step leaves the table alone
C11_NotableStep(t) ==
    LET r        == th[t]
        previous == th'[t].prev
        rule     == /\ r.sel > 0
                    /\ r.need # <<>>
                    /\ r.need[1].value * 215 > r.userPP * 10
                    /\ previous.found
                    /\ ~previous.ppIsNull
                    /\ r.userPP - previous.pp >= 5000
    IN  IF r.pc = "notable" /\ th'[t].pc = "userUpdate"
        THEN IF rule
             THEN /\ Len(perfChange') = Len(perfChange) + 1
                  /\ SubSeq(perfChange', 1, Len(perfChange)) = perfChange
                  /\ perfChange'[Len(perfChange')].user_id = r.userId
                  /\ perfChange'[Len(perfChange')].performance_change =
                        r.userPP - previous.pp
             ELSE perfChange' = perfChange
        ELSE th'[t] # th[t] => perfChange' = perfChange

\* C11: ProcessSingleUser inserts a row into osu_user_performance_change if and
\* only if selected_score_id > 0, a score needed an update, the first such
\* score's pp exceeds the new user pp / 21.5, the previously stored pp is found
\* and non-null, and new_user_pp - previous >= 5; the row's performance_change
\* is new_user_pp - previous; nothing is inserted when selected_score_id is 0.
C11_NotableEventRule == [][\A t \in PipelineThreads : C11_NotableStep(t)]_vars

\* a row was inserted on the boundary: the user's pp went from 1.000 to 6.000
C11_Witness ==
    /\ th["w1"].pc = "userUpdate"
    /\ th["w1"].sel > 0
    /\ th["w1"].userPP = 6000
    /\ th["w1"].prev = [found |-> TRUE, ppIsNull |-> FALSE, pp |-> 1000]
    /\ Len(perfChange) = 1
    /\ perfChange[1].performance_change = 5000

\* C20 (the claim as stated): when ProcessSingleUser runs with
\* selected_score_id > 0 and some score needs an update, the first score of
\* scoresThatNeedDBUpdate, which the notable event test and row use, is the
\* score whose id is selected_score_id.
C20_FrontIsSelected ==
    \A t \in PipelineThreads :
       th[t].pc = "notable" /\ th[t].sel > 0 /\ th[t].need # <<>> =>
          th[t].need[1].score_id = th[t].sel

(***************************************************************************)
(* Claims about ProcessAllUsers, under SpecAll                             *)
(***************************************************************************)
\* C1 (the claim as stated): whenever the driver is about to advance the
\* last_user_id counter (StoreCount after a step), no task is queued or running
\* in the pool and every worker connection has zero pending queries.
C1_Backpressure ==
    drv.pc = "store" =>
        /\ GetNumTasksInSystem = 0
        /\ \A c \in Connections : connPending[c] = 0

PendingUserIdValues == {mainPending[i].value : i \in
                          {i \in 1 .. Len(mainPending) : mainPending[i].key = LastUserIdKey}}

C2_Step ==
    /\ drv.pc = "store" /\ drv'.pc = "loop" =>
          LET q == mainPending'[Len(mainPending')]
          IN  /\ q.key = LastUserIdKey /\ ~q.isReset
              /\ q.value > drv.stepBegin
              /\ \A v \in PendingUserIdValues : q.value > v
              /\ PendingUserIdValues = {} => q.value > lastUserId
    /\ lastUserId' # lastUserId =>
          Head(mainPending).isReset \/ lastUserId' > lastUserId
    /\ runs' = runs /\ mainPending # <<>> /\ mainPending' = Tail(mainPending)
          /\ Head(mainPending).key = LastUserIdKey /\ ~Head(mainPending).isReset =>
          lastUserId' > lastUserId

\* C2: the StoreCount that ends a step of ProcessAllUsers writes a value
\* strictly greater than the step's begin and than every value stored or written
\* before it, and the stored last_user_id never decreases except by the reset
\* to 0 of a run with reProcess.
C2_CheckpointMonotone == [][C2_Step]_vars

\* a first run with reProcess on a store holding 3 steps: the counter was
\* zeroed, then two steps completed and their stores reached the database
C2_Witness ==
    /\ runs = 1
    /\ drv.reProcess
    /\ drv.pc = "done"
    /\ ~drv.shutDown
    /\ drv.maxUserId > userIdStep
    /\ mainPending = <<>>
    /\ lastUserId = 2 * userIdStep

\* C3 (the claim as stated): when the process was killed or shut down during
\* the step starting at b, the stored last_user_id was b, and a restart without
\* reProcess that runs to its end has dispatched every user id of the step.
C3_CheckpointReplay ==
    crash.inStep /\ ~drv.reProcess =>
        /\ crash.persisted = crash.b
        /\ drv.pc = "done" /\ ~drv.shutDown =>
              UsersBetween(crash.b, crash.b + userIdStep) \subseteq dispatched

\* a task is enqueued in this step of the behaviour: its user id
C15_Step ==
    Len(poolQueue') > Len(poolQueue) =>
       LET userId == poolQueue'[Len(poolQueue')].userId
       IN  /\ drv.stepBegin <= userId
           /\ userId < drv.stepBegin + userIdStep
           /\ userId \notin dispatched

\* C15 (the claim as stated): the user ids dispatched in a step are those of
\* [begin, begin + step), so that within a run no user id is dispatched twice,
\* a multiple of the step included.
C15_HalfOpenSteps == [][C15_Step]_vars

\* the first statements of ProcessAllUsers run in this step of the behaviour,
\* or the query of a step's user ids is made
C23_Step ==
    /\ drv.pc = "start" /\ drv'.pc # "start" /\ runs' = runs =>
          /\ drv.reProcess =>
                /\ drv'.begin = 0
                /\ drv'.pc = "loop"
                /\ mainPending' = Append(mainPending, [key |-> LastUserIdKey, value |-> 0,
                                                       isReset |-> TRUE])
          /\ ~drv.reProcess /\ lastUserId # -1 =>
                /\ drv'.begin = lastUserId
                /\ drv'.pc = "loop"
                /\ mainPending' = mainPending
          /\ ~drv.reProcess /\ lastUserId = -1 =>
                /\ drv'.pc = "done"
                /\ mainPending' = mainPending
          /\ UNCHANGED <<poolQueue, poolRunning, dispatched, lastUserId>>
    /\ drv.pc = "loop" /\ drv'.pc = "dispatch" =>
          /\ drv'.stepBegin = drv.begin
          /\ \A u \in drv'.res : u >= drv.begin
          /\ \A u \in userTable : drv.begin <= u /\ u < drv.begin + userIdStep => u \in drv'.res

\* C23: with reProcess, ProcessAllUsers writes 0 to the last_user_id counter and
\* starts at user id 0; without it, it starts at the stored counter; each step
\* asks for the user ids from begin on; and a run without reProcess that finds
\* no stored counter (-1) has returned at once: no user dispatched, no task in
\* the pool, no counter written.
C23_StartOfReprocessing ==
    /\ [][C23_Step]_vars
    /\ [](drv.begin = -1 =>
             /\ drv.pc = "done" /\ ~drv.reProcess
             /\ dispatched = {} /\ GetNumTasksInSystem = 0 /\ mainPending = <<>>
             /\ lastUserId = -1)

\* a restarted run without reProcess found no stored counter and has returned
C23_Witness ==
    /\ runs = MaxRuns
    /\ ~drv.reProcess
    /\ drv.pc = "done"
    /\ drv.begin = -1
    /\ lastUserId = -1

\* C21 (the claim as stated): no two pool threads run, at the same time,
\* ProcessSingleUser tasks bound to the same entry of databaseConnections (and
\* so to the same pair of batchers).
C21_ConnectionsNotShared ==
    \A v \in Workers, w \in Workers :
       v # w /\ poolRunning[v].busy /\ poolRunning[w].busy =>
          poolRunning[v].conn # poolRunning[w].conn

(***************************************************************************)
(* Claims about the score poller, under SpecMonitor                        *)
(***************************************************************************)
PendingScoreIdValues == {mainPending[i].value : i \in
                           {i \in 1 .. Len(mainPending) : mainPending[i].key = LastScoreIdKey}}

C4_Step ==
    /\ lastScoreId' >= lastScoreId
    /\ Len(mainPending') > Len(mainPending) =>
          LET q == mainPending'[Len(mainPending')]
          IN  /\ q.key = LastScoreIdKey
              /\ q.value = _currentScoreId'
              /\ q.value >= lastScoreId
              /\ \A v \in PendingScoreIdValues : q.value >= v

\* C4: over polls, stores and restarts (each reloading _currentScoreId from the
\* store) every value StoreCount writes under last_score_id is at least the
\* stored value and every value written before, and the stored value never
\* decreases.
C4_ScoreCheckpointMonotone == [][C4_Step]_vars

\* score id 2 was stored by the first run; after a restart the poller went on
\* and has written 4
C4_Witness ==
    /\ restarts = 1
    /\ lastScoreId = 2
    /\ mainPending # <<>>
    /\ Head(mainPending).value = 4
    /\ _currentScoreId = 4

\* the scores passed to ProcessSingleUser since the checkpoint write before
\* call i, call i included
CallsSinceStore(i) ==
    LET stores == {j \in 1 .. i - 1 : psuCalls[j].stored}
        last   == IF stores = {} THEN 0 ELSE CHOOSE j \in stores : \A k \in stores : k <= j
    IN  i - last

\* C16 (the claim as stated): the checkpoint is written exactly when the count
\* of scores processed since the previous write reaches s_lastScoreIdUpdateStep,
\* and the value written is the highest score id processed so far.
C16_CheckpointEveryStep ==
    \A i \in 1 .. Len(psuCalls) :
       /\ psuCalls[i].stored <=> CallsSinceStore(i) = s_lastScoreIdUpdateStep
       /\ psuCalls[i].stored =>
             \A j \in 1 .. i : psuCalls[j].score_id <= psuCalls[i].current

\* C17: within one run the score ids passed to ProcessSingleUser are strictly
\* increasing, each is greater than the _currentScoreId its poll was issued
\* with, and after a score is processed _currentScoreId is the highest score id
\* processed so far.
C17_AscendingScores ==
    /\ \A i \in 1 .. Len(psuCalls) :
          /\ i > 1 => psuCalls[i - 1].score_id < psuCalls[i].score_id
          /\ psuCalls[i].score_id > psuCalls[i].issuedAt
          /\ psuCalls[i].current = psuCalls[i].score_id
    /\ psuCalls # <<>> =>
          _currentScoreId = psuCalls[Len(psuCalls)].score_id

\* three scores were processed by two polls, the second issued after the first
\* had raised _currentScoreId
C17_Witness ==
    /\ Len(psuCalls) = 3
    /\ psuCalls[1].issuedAt = 0
    /\ psuCalls[2].issuedAt = 0
    /\ psuCalls[3].issuedAt = psuCalls[2].score_id
    /\ spPc = "idle"

\* the last row of a poll's result is consumed in this step of the behaviour:
\* the rows come in ascending order, so it is the largest score_id returned
C22_Step ==
    spPc = "rows" /\ Len(spRes) = 1 /\ spRes' = <<>> /\ restarts' = restarts =>
       _currentScoreId' >= spRes[1]

\* C22 (the claim as stated): after a poll that returned at least one row,
\* _currentScoreId is at least the largest score_id returned, rows that already
\* have a pp included, so that the next poll does not return the same rows.
C22_PollerProgress == [][C22_Step]_vars

\* C12 (the claim as stated): when a query made during a poll tick fails, the
\* process stays up with its polling loop running, and neither _currentScoreId
\* nor the checkpoint, stored or about to be stored, is advanced to or past a
\* score whose processing failed, so that the next tick polls it again.
C12_TransientFailure ==
    /\ spPc # "terminated"
    /\ \A i \in 1 .. Len(psuCalls) :
          psuCalls[i].failed =>
             /\ _currentScoreId < psuCalls[i].score_id
             /\ lastScoreId < psuCalls[i].score_id
             /\ \A v \in PendingScoreIdValues : v < psuCalls[i].score_id

(***************************************************************************)
(* Claims about the preload, under SpecPreload                             *)
(***************************************************************************)
\* C14 (the claim as stated): after the preload the cache holds an entry for
\* every beatmap with approved >= 1 and attributes of the mode, whatever the
\* distribution of the beatmap ids.
C14_PreloadComplete ==
    pre.pc = "done" => \A b \in beatmapTable : _beatmaps[b].present

(***************************************************************************)
(* Claims about shutdown, under SpecShutdown                               *)
(***************************************************************************)
\* C13: once the shutdown flag is set, ProcessAllUsers eventually returns, and
\* both poll threads of MonitorNewScores eventually end (after the poll in
\* progress) and MonitorNewScores returns, under fair scheduling.
C13_CooperativeShutdown ==
    _shallShutdown ~> /\ drv.pc \in {"off", "done"}
                      /\ mnsPc \in {"off", "returned"}
                      /\ spPc \in {"off", "exited"}
                      /\ th[PollerThread].pc \in {"off", "bpExited"}

\* the flag was set while a poll was processing scores, and MonitorNewScores
\* has returned
C13_Witness ==
    /\ _shallShutdown
    /\ mnsPc = "returned"
    /\ psuCalls # <<>>
    /\ th[PollerThread].polled > 0

====
